---- MODULE Spec2Model ----
(***************************************************************************)
(* Model of src/bindle_utils.rs: the ParcelHelpers / InvoiceHelpers        *)
(* queries over a bindle invoice and the resolver parcels_required_by,     *)
(* which walks "requires" -> "member_of" edges with a frontier of group    *)
(* labels (parcels_required_by_acc).                                       *)
(*                                                                         *)
(* Option<T> is a sequence of length 0 (None) or 1 (Some(x)); Vec<T> is a  *)
(* sequence.  A parcel is [sha256, conditions] with conditions an          *)
(* Option<[member_of : Option<Vec<String>>, requires : Option<Vec<..>>]>.  *)
(***************************************************************************)
EXTENDS Integers, Sequences, FiniteSets

\* ------------------------------------------------------------------ bounds
\* longest invoice.parcel list of the shapes family
MaxParcels == 2
\* longest requires list of a starting parcel of the scenario family
MaxRequires == 3

\* most client() calls made on one BindleConnectionInfo
MaxClients == 2

\* group labels and fingerprints (label.sha256) of the scenarios
Labels == {"db", "web", "cache"}

\* ------------------------------------------------------------ Option / Vec
None == << >>
Some(x) == << x >>

\* every Vec over S of length at most n
RECURSIVE VecsUpTo(_, _)
VecsUpTo(S, n) ==
    IF n = 0 THEN { << >> }
    ELSE LET shorter == VecsUpTo(S, n - 1)
         IN  shorter \cup { Append(v, x) : v \in { w \in shorter : Len(w) = n - 1 }, x \in S }

OptVecs(S, n) == { None } \cup { Some(v) : v \in VecsUpTo(S, n) }

Contains(v, x) == \E i \in 1..Len(v) : v[i] = x

\* Itertools::unique: keep the first occurrence of every element, in order
RECURSIVE unique(_)
unique(v) ==
    IF v = << >> THEN << >>
    ELSE LET front == unique(SubSeq(v, 1, Len(v) - 1))
             last  == v[Len(v)]
         IN  IF Contains(front, last) THEN front ELSE Append(front, last)

\* faulty variant: deduplicates on the whole record instead of the fingerprint
unique_by_sha256_record(v) == unique(v)

\* faulty variant: of the records with one fingerprint the last is kept
RECURSIVE unique_by_sha256_last(_)
unique_by_sha256_last(v) ==
    IF v = << >> THEN << >>
    ELSE IF \E i \in 2..Len(v) : v[i].sha256 = v[1].sha256
         THEN unique_by_sha256_last(Tail(v))
         ELSE << v[1] >> \o unique_by_sha256_last(Tail(v))

\* Itertools::unique_by(|p| p.label.sha256.clone())
RECURSIVE unique_by_sha256(_)
unique_by_sha256(v) ==
    IF v = << >> THEN << >>
    ELSE LET front == unique_by_sha256(SubSeq(v, 1, Len(v) - 1))
             last  == v[Len(v)]
         IN  IF \E i \in 1..Len(front) : front[i].sha256 = last.sha256
             THEN front
             ELSE Append(front, last)

\* ------------------------------------------------- BindleConnectionInfo
\* the two TokenManager variants behind AnyAuth
HttpBasic(u, p) == [ kind |-> "HttpBasic", credentials |-> Some(<< u, p >>) ]
NoToken == [ kind |-> "NoToken", credentials |-> None ]

\* faulty variant: a username alone is enough for basic auth
token_manager_any(username, password) ==
    IF username # None
    THEN HttpBasic(username[1], IF password = None THEN "" ELSE password[1])
    ELSE NoToken
\* BindleConnectionInfo::new, lines 34-37: match (username, password)
token_manager_of(username, password) ==
    IF username # None /\ password # None
    THEN HttpBasic(username[1], password[1])
    ELSE NoToken

\* BindleConnectionInfo::new, lines 39-43
new_info(base_url, allow_insecure, username, password) ==
    [ base_url |-> base_url,
      allow_insecure |-> allow_insecure,
      token_manager |-> token_manager_of(username, password) ]

\* what client() hands to ClientBuilder::build, lines 47-50
built_client(info) ==
    [ http2_prior_knowledge |-> FALSE,
      danger_accept_invalid_certs |-> info.allow_insecure,
      base_url |-> info.base_url,
      token_manager |-> info.token_manager ]

\* ----------------------------------------------------------- annotations
\* faulty variant: an absent annotation mapping counts as holding every key
has_annotation_absent(p, key) ==
    IF p.annotations = None THEN TRUE ELSE key \in DOMAIN p.annotations[1]
\* ParcelHelpers::has_annotation; the mapping is a function from its keys
has_annotation(p, key) ==
    IF p.annotations = None THEN FALSE ELSE key \in DOMAIN p.annotations[1]

\* faulty variant: an absent requires list falls back to the member_of list
requires_or_member_of(p) ==
    IF p.conditions = None THEN << >>
    ELSE IF p.conditions[1].requires = None
         THEN (IF p.conditions[1].member_of = None THEN << >> ELSE p.conditions[1].member_of[1])
    ELSE p.conditions[1].requires[1]

\* ----------------------------------------------------------- ParcelHelpers
\* ParcelHelpers::requires
requires(p) ==
    IF p.conditions = None THEN << >>
    ELSE IF p.conditions[1].requires = None THEN << >>
    ELSE p.conditions[1].requires[1]

is_member_of(p, group) ==
    IF p.conditions = None THEN FALSE
    ELSE IF p.conditions[1].member_of = None THEN FALSE
    ELSE Contains(p.conditions[1].member_of[1], group)

\* faulty variant: the membership filter is left out
parcels_in_unfiltered(inv, group) ==
    IF inv.parcel = None THEN << >> ELSE inv.parcel[1]

\* faulty variant: a parcel listed twice is returned once
parcels_in_once(inv, group) ==
    IF inv.parcel = None THEN << >>
    ELSE unique(SelectSeq(inv.parcel[1], LAMBDA p : is_member_of(p, group)))

\* ---------------------------------------------------------- InvoiceHelpers
parcels_in(inv, group) ==
    IF inv.parcel = None THEN << >>
    ELSE SelectSeq(inv.parcel[1], LAMBDA p : is_member_of(p, group))

\* members.iter().flat_map(|p| p.requires())
RECURSIVE flat_map_requires(_)
flat_map_requires(members) ==
    IF members = << >> THEN << >>
    ELSE requires(Head(members)) \o flat_map_requires(Tail(members))

\* one pass of the Some(group) arm of parcels_required_by_acc, on the
\* arguments (groups, acc): the arguments of the recursive call
\* groups.pop(): the popped label and what is left of the frontier
pop_group(grps) == grps[Len(grps)]
\* faulty variant: the last label is read but not removed
pop_rest_peek(grps) == grps
pop_rest(grps) == SubSeq(grps, 1, Len(grps) - 1)

\* faulty variant: only the first member's requires are collected
required_groups_first(inv, grps) ==
    LET members == parcels_in(inv, pop_group(grps))
    IN  IF members = << >> THEN << >> ELSE unique(requires(members[1]))
\* lines 122-124: the requires of the popped label's members
required_groups(inv, grps) ==
    unique(flat_map_requires(parcels_in(inv, pop_group(grps))))

\* faulty variant: the newly required labels replace the frontier
new_groups_replace(inv, grps) ==
    IF required_groups(inv, grps) = << >> THEN pop_rest(grps)
    ELSE unique(required_groups(inv, grps))
\* faulty variant: the frontier is not deduplicated
new_groups_append(inv, grps) == pop_rest(grps) \o required_groups(inv, grps)
\* lines 126-127: the frontier of the recursive call
new_groups(inv, grps) ==
    unique(pop_rest(grps) \o required_groups(inv, grps))

\* faulty variant: the members replace the accumulator
new_acc_replace(inv, grps, accum) == parcels_in(inv, pop_group(grps))
\* faulty variant: the members are put in front of the accumulator
new_acc_prepend(inv, grps, accum) == parcels_in(inv, pop_group(grps)) \o accum
\* lines 122, 125: the accumulator of the recursive call
new_acc(inv, grps, accum) ==
    accum \o parcels_in(inv, pop_group(grps))

\* parcels_required_by_acc as a function of its arguments: Some(acc) when the
\* None arm is reached, None when the call is entered with a frontier that a
\* call above it (hist) already had, i.e. when the recursion never ends
RECURSIVE parcels_required_by_acc(_, _, _, _)
parcels_required_by_acc(inv, grps, accum, hist) ==
    IF grps = << >> THEN Some(accum)
    ELSE IF grps \in hist THEN None
    ELSE parcels_required_by_acc(inv, new_groups(inv, grps), new_acc(inv, grps, accum),
                                 hist \cup { grps })

\* parcels_required_by: Some(returned Vec), or None when the call never returns
parcels_required_by(inv, p) ==
    LET r == parcels_required_by_acc(inv, requires(p), << >>, {})
    IN  IF r = None THEN None ELSE Some(unique_by_sha256(r[1]))

\* ------------------------------------------------------------------ inputs
Parcel(fp, cond) == [ sha256 |-> fp, conditions |-> cond ]
CondsOf(memberOfs, requiresLists) ==
    { None } \cup { Some(c) : c \in [ member_of : memberOfs, requires : requiresLists ] }

\* Shapes family: every shape of the optional fields, over two labels and two
\* fingerprints, so that records may repeat or share a fingerprint.
ShapeParcels ==
    { Parcel(fp, c) :
        fp \in {"parcelA", "parcelB"},
        c \in CondsOf({ None, Some(<<"db">>), Some(<<"web">>), Some(<<"db", "web">>) },
                      { None, Some(<< >>), Some(<<"db">>), Some(<<"web">>) }) }
ShapeInvoices == [ parcel : OptVecs(ShapeParcels, MaxParcels) ]

\* Scenario family: the groups db: [parcelB], web: [parcelC], cache: [parcelD],
\* each member requiring nothing or one label; the starting parcel requires
\* any list of labels (repeats included) and may share parcelB's fingerprint.
OneLabel == { None, Some(<< >>) } \cup { Some(<< l >>) : l \in Labels }
Member(fp, group, req) ==
    Parcel(fp, Some([ member_of |-> Some(<< group >>), requires |-> req ]))
ScenarioInvoices ==
    { [ parcel |-> Some(<< Member("parcelB", "db", rb),
                           Member("parcelC", "web", rc),
                           Member("parcelD", "cache", rd) >>) ] :
        rb \in OneLabel, rc \in OneLabel, rd \in OneLabel }
    \cup { [ parcel |-> None ] }
StartParcels ==
    { Parcel(fp, c) :
        fp \in {"parcelA", "parcelB"},
        c \in CondsOf({ None, Some(<<"db">>) }, OptVecs(Labels, MaxRequires)) }

\* Parcels of the Label Index queries: every shape of label.annotations
\* (absent, empty, one or two keys) and of conditions.
AnnotationKeys == {"name", "route"}
AnnotationValues == {"x", "y"}
Annotations ==
    { None } \cup { Some(m) : m \in UNION { [ K -> AnnotationValues ] : K \in SUBSET AnnotationKeys } }
QueryParcels ==
    [ sha256 : {"parcelA"},
      annotations : Annotations,
      conditions : CondsOf({ None, Some(<< >>), Some(<<"db">>) }, { None, Some(<<"web">>) }) ]

\* arguments of BindleConnectionInfo::new
BaseUrls == {"http://bindle.local/v1", "https://bindle.local/v1"}
Usernames == { None, Some("alice"), Some("bob") }
Passwords == { None, Some("secret"), Some("") }

\* ------------------------------------------------------------------- state
VARIABLES
    invoice,   \* the manifest the call reads (self)
    parcel,    \* the starting parcel
    pc,        \* "idle" | "acc" | "looping" | "done"
    groups,    \* frontier argument of the current parcels_required_by_acc call
    acc,       \* accumulator argument of the current call
    seen,      \* frontiers the earlier recursive calls of this run were entered with
    lap,       \* parity of the calls made since a frontier first came back
    result,    \* value returned by parcels_required_by
    query,     \* the last ParcelHelpers query made: operation, receiver, argument, value
    conn,      \* the BindleConnectionInfo, None before BindleConnectionInfo::new
    given,     \* the (username, password) that new was called with
    clients    \* what the client() calls made so far returned, oldest first

resolverVars == << invoice, parcel, pc, groups, acc, seen, lap, result >>
queryVars == << query >>
connVars == << conn, given, clients >>
vars == << invoice, parcel, pc, groups, acc, seen, lap, result, query, conn, given, clients >>

\* no query made, no connection info constructed, no call of the resolver
NoQuery == [ op |-> "none", self |-> None, arg |-> "", out |-> None ]
QueryIdle == query = NoQuery
ConnIdle == conn = None /\ given = None /\ clients = << >>

Init ==
    /\ \/ invoice \in ShapeInvoices /\ parcel \in ShapeParcels
       \/ invoice \in ScenarioInvoices /\ parcel \in StartParcels
    /\ pc = "idle"
    /\ groups = << >>
    /\ acc = << >>
    /\ seen = {}
    /\ lap = 0
    /\ result = << >>
    /\ QueryIdle
    /\ ConnIdle

\* parcels_required_by, line 107: the first call of parcels_required_by_acc
Call ==
    /\ pc = "idle"
    /\ pc' = "acc"
    /\ groups' = requires(parcel)
    /\ acc' = << >>
    /\ UNCHANGED << invoice, parcel, seen, lap, result , query, conn, given, clients >>

\* parcels_required_by_acc, Some(group) arm: one level of the recursion
Expand ==
    /\ pc = "acc"
    /\ groups # << >>
    /\ groups \notin seen
    /\ groups' = new_groups(invoice, groups)
    /\ acc' = new_acc(invoice, groups, acc)
    /\ seen' = seen \cup { groups }
    /\ UNCHANGED << invoice, parcel, pc, lap, result , query, conn, given, clients >>

\* The Some(group) arm entered with a frontier an earlier call of the same run
\* already had.  new_groups depends on the invoice and the frontier only, so
\* the frontiers repeat from here on for ever and the None arm is never
\* reached; acc only grows.  The model keeps following the frontier and stops
\* recording acc, of which it keeps the parity of the passes (lap).
Loop ==
    /\ pc \in { "acc", "looping" }
    /\ groups # << >>
    /\ groups \in seen
    /\ pc' = "looping"
    /\ groups' = new_groups(invoice, groups)
    /\ lap' = 1 - lap
    /\ UNCHANGED << invoice, parcel, acc, seen, result , query, conn, given, clients >>

\* parcels_required_by_acc, None arm, and lines 108-110 of parcels_required_by
Return ==
    /\ pc = "acc"
    /\ groups = << >>
    /\ pc' = "done"
    /\ result' = unique_by_sha256(acc)
    /\ UNCHANGED << invoice, parcel, groups, acc, seen, lap , query, conn, given, clients >>

Next == Call \/ Expand \/ Loop \/ Return

Spec == Init /\ [][Next]_vars

\* The calls of the scenario family for parcelA and its shorter requires
\* lists, run to their end: the call is one thread with no suspension point,
\* so a step that can be taken is taken.
ScenarioInit ==
    /\ Init
    /\ invoice \in ScenarioInvoices
    /\ parcel \in { p \in StartParcels : p.sha256 = "parcelA" /\ Len(requires(p)) < MaxRequires }
FairSpec == ScenarioInit /\ [][Next]_vars /\ WF_vars(Next)

\* ------------------------------------------------- Label Index queries
ResolverIdle ==
    /\ invoice = [ parcel |-> None ]
    /\ parcel = Parcel("parcelA", None)
    /\ pc = "idle" /\ groups = << >> /\ acc = << >> /\ seen = {} /\ lap = 0
    /\ result = << >>

QueryInit == ResolverIdle /\ QueryIdle /\ ConnIdle

\* p.has_annotation(key)
HasAnnotation ==
    \E p \in QueryParcels, key \in AnnotationKeys :
        /\ query' = [ op |-> "has_annotation", self |-> p, arg |-> key,
                      out |-> has_annotation(p, key) ]
        /\ UNCHANGED << resolverVars, connVars >>

\* p.is_member_of(group)
IsMemberOf ==
    \E p \in QueryParcels, group \in Labels :
        /\ query' = [ op |-> "is_member_of", self |-> p, arg |-> group,
                      out |-> is_member_of(p, group) ]
        /\ UNCHANGED << resolverVars, connVars >>

\* p.requires()
Requires ==
    \E p \in QueryParcels :
        /\ query' = [ op |-> "requires", self |-> p, arg |-> "", out |-> requires(p) ]
        /\ UNCHANGED << resolverVars, connVars >>

QueryNext == HasAnnotation \/ IsMemberOf \/ Requires
QuerySpec == QueryInit /\ [][QueryNext]_vars

\* ------------------------------------------------- connection info
ConnInit == ResolverIdle /\ QueryIdle /\ ConnIdle

\* BindleConnectionInfo::new(base_url, allow_insecure, username, password)
New ==
    \E base_url \in BaseUrls, allow_insecure \in BOOLEAN,
       username \in Usernames, password \in Passwords :
        /\ conn = None
        /\ conn' = Some(new_info(base_url, allow_insecure, username, password))
        /\ given' = Some([ username |-> username, password |-> password ])
        /\ UNCHANGED << resolverVars, queryVars, clients >>

\* self.client(): ClientBuilder::build gives Ok(client) or Err; &self is not
\* written
Client ==
    \E ok \in BOOLEAN :
        /\ conn # None
        /\ Len(clients) < MaxClients
        /\ clients' = Append(clients, IF ok THEN Some(built_client(conn[1])) ELSE None)
        /\ UNCHANGED << resolverVars, queryVars, conn, given >>

ConnNext == New \/ Client
ConnSpec == ConnInit /\ [][ConnNext]_vars

\* ========================================================== properties
Elems(v) == { v[i] : i \in 1..Len(v) }
Fps(v) == { v[i].sha256 : i \in 1..Len(v) }
Records(inv) == IF inv.parcel = None THEN {} ELSE Elems(inv.parcel[1])

\* labels required by the members of the labels in S
RequiredBy(inv, S) ==
    UNION { Elems(requires(p)) : p \in { q \in Records(inv) : \E l \in S : is_member_of(q, l) } }

\* least set of labels that holds S and is closed under "a member of L requires M"
RECURSIVE ReachableLabels(_, _)
ReachableLabels(inv, S) ==
    LET T == S \cup RequiredBy(inv, S)
    IN  IF T = S THEN S ELSE ReachableLabels(inv, T)

Returned == pc = "done"

\* the manifest and starting parcel of Scenario D
ScenarioD ==
    /\ invoice = [ parcel |-> Some(<< Member("parcelB", "db", Some(<<"cache">>)),
                                      Member("parcelC", "web", Some(<<"cache">>)),
                                      Member("parcelD", "cache", Some(<<"web">>)) >>) ]
    /\ parcel = Parcel("parcelA", Some([ member_of |-> None,
                                         requires |-> Some(<<"db", "web">>) ]))

\* C1: every call of parcels_required_by terminates: for every manifest and
\* starting parcel, cycles included, the frontier becomes empty and a result
\* is returned.
C1_Terminates == <>Returned

\* C2: in Scenario D the call terminates and returns exactly parcelB, parcelC
\* and parcelD, each once.
C2_ScenarioD ==
    ScenarioD => <>(Returned /\ Len(result) = 3
                             /\ Fps(result) = {"parcelB", "parcelC", "parcelD"})

\* C3: closure.  When the call has returned R, every member of every label
\* required by the starting parcel or by a parcel of R has its fingerprint in
\* R, and the call seeded from any parcel of R returns no fingerprint outside R.
C3_Closure ==
    Returned =>
        /\ \A l \in Elems(requires(parcel)) \cup UNION { Elems(requires(p)) : p \in Elems(result) } :
              Fps(parcels_in(invoice, l)) \subseteq Fps(result)
        /\ \A p \in Elems(result) :
              LET again == parcels_required_by(invoice, p)
              IN  again # None /\ Fps(again[1]) \subseteq Fps(result)
\* a returned result that holds a parcel with requirements of its own
C3_Witness ==
    /\ Returned
    /\ \E p \in Elems(result) :
          /\ requires(p) # << >>
          /\ \E l \in Elems(requires(p)) : parcels_in(invoice, l) # << >>

\* C4: exactness.  When the call has returned, the fingerprints of the result
\* are those of the manifest parcels that are members of a label reachable
\* from the starting parcel's requires.
C4_Exact ==
    Returned =>
        Fps(result) =
            { p.sha256 : p \in { q \in Records(invoice) :
                \E l \in ReachableLabels(invoice, Elems(requires(parcel))) : is_member_of(q, l) } }
\* a returned result with a parcel reached in two hops, and a manifest parcel left out
C4_Witness ==
    /\ Returned
    /\ Cardinality(seen) >= 2
    /\ Cardinality(Fps(result)) >= 2
    /\ \E q \in Records(invoice) : q.sha256 \notin Fps(result)

\* C5: the result never holds two entries with the same fingerprint.
C5_NoDuplicateFingerprints ==
    Returned =>
        \A i, j \in 1..Len(result) : result[i].sha256 = result[j].sha256 => i = j
\* a parcel that is a member of two expanded labels was accumulated twice and
\* is returned once
C5_Witness ==
    /\ Returned
    /\ Len(acc) > Len(result)
    /\ \E p \in Elems(result) : \E l, m \in seen :
          /\ pop_group(l) # pop_group(m)
          /\ is_member_of(p, pop_group(l)) /\ is_member_of(p, pop_group(m))

\* C6 as stated: when the starting parcel's fingerprint is in the result, some
\* parcel of the result with another fingerprint requires a label that the
\* starting parcel is a member of.
C6_StartOnlyThroughOthers ==
    (Returned /\ parcel.sha256 \in Fps(result)) =>
        \E q \in Elems(result) :
            /\ q.sha256 # parcel.sha256
            /\ \E l \in Elems(requires(q)) : is_member_of(parcel, l)
\* C6 amended: when the starting parcel's fingerprint is in the result, a
\* manifest record with that fingerprint is a member of a label that the
\* starting parcel requires or that an accumulated parcel requires; the
\* returned entry is that fingerprint's first accumulated record.
C6_StartThroughMembership ==
    (Returned /\ parcel.sha256 \in Fps(result)) =>
        /\ \E r \in Records(invoice) :
              /\ r.sha256 = parcel.sha256
              /\ \E l \in Elems(requires(parcel)) \cup UNION { Elems(requires(q)) : q \in Elems(acc) } :
                    is_member_of(r, l)
        /\ \E i \in 1..Len(acc) :
              /\ acc[i] \in Elems(result)
              /\ acc[i].sha256 = parcel.sha256
              /\ \A j \in 1..(i - 1) : acc[j].sha256 # parcel.sha256
\* the starting parcel requires a label it is a member of, a manifest record
\* with its fingerprint is in that label, and it is returned with no other parcel
C6_Witness ==
    /\ Returned
    /\ parcel.sha256 \in Fps(result)
    /\ Len(result) = 1
    /\ \E l \in Elems(requires(parcel)) : is_member_of(parcel, l)

\* every reordering of the list v
Reorderings(v) ==
    { w \in VecsUpTo(Elems(v), Len(v)) :
        /\ Len(w) = Len(v)
        /\ \A x \in Elems(v) :
              Cardinality({ i \in 1..Len(w) : w[i] = x }) = Cardinality({ i \in 1..Len(v) : v[i] = x }) }
\* the starting parcel with its requires list replaced by w
WithRequires(p, w) ==
    IF requires(p) = << >> THEN p
    ELSE [ p EXCEPT !.conditions = Some([ p.conditions[1] EXCEPT !.requires = Some(w) ]) ]

\* C7: order independence.  When the call has returned, the call for a
\* starting parcel whose requires list is any permutation of this one's
\* returns too, with the same set of fingerprints.
C7_OrderIndependent ==
    Returned =>
        \A w \in Reorderings(requires(parcel)) :
            LET other == parcels_required_by(invoice, WithRequires(parcel, w))
            IN  other # None /\ Fps(other[1]) = Fps(result)
\* a permutation that changes the order of the returned entries
C7_Witness ==
    /\ Returned
    /\ \E w \in Reorderings(requires(parcel)) :
          LET other == parcels_required_by(invoice, WithRequires(parcel, w))
          IN  other # None /\ other[1] # result

\* the starting parcel has no requires: conditions absent, or requires absent or empty
NoRequires(p) ==
    \/ p.conditions = None
    \/ p.conditions[1].requires = None
    \/ p.conditions[1].requires = Some(<< >>)

\* C9: a starting parcel with no requires gives an empty result after no
\* expansion step, whatever the manifest holds.
C9_NoRequiresEmpty ==
    NoRequires(parcel) =>
        /\ pc \in { "idle", "acc", "done" }
        /\ groups = << >> /\ acc = << >> /\ seen = {}
        /\ result = << >>
\* such a call has returned over a manifest with a member of a group
C9_Witness ==
    /\ Returned
    /\ NoRequires(parcel)
    /\ parcel.conditions # None
    /\ \E q \in Records(invoice) : \E l \in Labels : is_member_of(q, l)

\* C10: over a manifest with no parcel field, parcels_in is empty for every
\* group and the call ends with an empty result: no frontier comes back,
\* nothing is accumulated, and the frontier shrinks at every step.
C10_NoParcelField ==
    invoice.parcel = None =>
        /\ \A g \in Labels : parcels_in(invoice, g) = << >>
        /\ pc # "looping"
        /\ acc = << >> /\ result = << >>
        /\ \A f \in seen : Len(groups) < Len(f)
\* such a call has returned for a starting parcel that requires a label twice
C10_Witness ==
    /\ Returned
    /\ invoice.parcel = None
    /\ \E i, j \in 1..Len(requires(parcel)) : i # j /\ requires(parcel)[i] = requires(parcel)[j]

\* the manifest's parcel list, empty when the parcel field is absent
Listed(inv) == IF inv.parcel = None THEN << >> ELSE inv.parcel[1]
\* positions of the manifest's members of group g
MemberPositions(inv, g) == { i \in 1..Len(Listed(inv)) : is_member_of(Listed(inv)[i], g) }
\* the k-th smallest position of the set P
KthPosition(P, k) == CHOOSE i \in P : Cardinality({ j \in P : j <= i }) = k

\* C11: parcels_in(manifest, g) is the manifest's list restricted to the
\* members of g: as many entries as member positions, the k-th entry being
\* the parcel at the k-th member position; no entry has conditions or
\* member_of absent.
C11_ParcelsInIsFilter ==
    \A g \in Labels :
        LET out == parcels_in(invoice, g)
            P   == MemberPositions(invoice, g)
        IN  /\ Len(out) = Cardinality(P)
            /\ \A k \in 1..Len(out) :
                  /\ out[k] = Listed(invoice)[KthPosition(P, k)]
                  /\ out[k].conditions # None
                  /\ out[k].conditions[1].member_of # None
\* one expansion has accumulated a record listed twice, twice
C11_Witness ==
    /\ pc = "acc"
    /\ Cardinality(seen) = 1
    /\ Len(Listed(invoice)) = 2
    /\ acc = Listed(invoice)
    /\ acc[1] = acc[2]

\* C12: absent optional fields are not an error.  has_annotation answers
\* false for every key when the annotation mapping is absent, is_member_of
\* answers false for every group when conditions or member_of is absent, and
\* every answer of the two is a boolean.
C12_AbsentIsFalse ==
    /\ query.op = "has_annotation" =>
          /\ query.out \in BOOLEAN
          /\ query.self.annotations = None => query.out = FALSE
    /\ query.op = "is_member_of" =>
          /\ query.out \in BOOLEAN
          /\ (\/ query.self.conditions = None
              \/ query.self.conditions[1].member_of = None) => query.out = FALSE
\* has_annotation was asked of a parcel without annotation mapping, member of db
C12_Witness ==
    /\ query.op = "has_annotation"
    /\ query.self.annotations = None
    /\ is_member_of(query.self, "db")

\* C13: within one call each label is popped and expanded at most once: no
\* two expansions of the run popped the same label.
C13_ExpandedOnce ==
    \A f, g \in seen : pop_group(f) = pop_group(g) => f = g

\* positions of v whose fingerprint does not occur at an earlier position
FirstPositions(v) ==
    { i \in 1..Len(v) : \A j \in 1..(i - 1) : v[j].sha256 # v[i].sha256 }

\* C14: the result is the final accumulator without the entries whose
\* fingerprint occurred earlier, in the accumulator's order; of two records
\* with one fingerprint the one accumulated first is returned.
C14_KeepsFirst ==
    Returned =>
        /\ Len(result) = Cardinality(FirstPositions(acc))
        /\ \A k \in 1..Len(result) : result[k] = acc[KthPosition(FirstPositions(acc), k)]
\* two records that share a fingerprint and differ otherwise were accumulated;
\* the earlier one is returned, the later one is not
C14_Witness ==
    /\ Returned
    /\ \E i, j \in 1..Len(acc) :
          /\ i < j
          /\ acc[i].sha256 = acc[j].sha256
          /\ acc[i] # acc[j]
          /\ acc[i] \in Elems(result)
          /\ acc[j] \notin Elems(result)

\* the step pops a label that no parcel of the manifest is a member of
PopsEmptyLabel ==
    /\ pc = "acc"
    /\ groups # << >>
    /\ MemberPositions(invoice, pop_group(groups)) = {}

\* C15 as stated: expanding a label with no member leaves the accumulator
\* unchanged and the frontier becomes the previous frontier without the
\* popped label (without its last entry, or without every entry of that label).
C15_FrontierWithoutPopped ==
    [][PopsEmptyLabel =>
          /\ acc' = acc
          /\ \/ groups' = pop_rest(groups)
             \/ groups' = SelectSeq(groups, LAMBDA l : l # pop_group(groups))]_vars
\* C15 amended: expanding a label with no member leaves the accumulator
\* unchanged, adds no label, and the frontier becomes the previous frontier
\* without its last entry and with repeated labels reduced to their first
\* occurrence; the call goes on.
C15_FrontierUniqueRest ==
    [][PopsEmptyLabel =>
          /\ acc' = acc
          /\ groups' = unique(pop_rest(groups))
          /\ Elems(groups') \subseteq Elems(groups)
          /\ pc' \in { "acc", "looping" }]_vars
\* a label without members was popped from a frontier of three entries that
\* held another label twice: one entry is left
C15_Witness ==
    /\ pc = "acc"
    /\ Len(groups) = 1
    /\ \E f \in seen :
          /\ Len(f) = 3
          /\ MemberPositions(invoice, pop_group(f)) = {}
          /\ groups = unique(pop_rest(f))

\* the token manager in use
TokenManager == conn[1].token_manager
\* the connection info agrees with the credentials given to new, and every
\* client built carries its token manager
AuthAsGiven ==
    conn # None =>
        /\ given # None
        /\ TokenManager.kind = "HttpBasic"
              <=> (given[1].username # None /\ given[1].password # None)
        /\ TokenManager.kind = "HttpBasic" =>
              TokenManager.credentials = Some(<< given[1].username[1], given[1].password[1] >>)
        /\ TokenManager.kind # "HttpBasic" => TokenManager = NoToken
        /\ \A i \in 1..Len(clients) :
              clients[i] # None => clients[i][1].token_manager = TokenManager

\* C16: new selects the authentication variant once: basic auth exactly when
\* both username and password are supplied, no authentication otherwise (one
\* of the two alone included, which still constructs); every client() call
\* uses that variant and leaves the connection info as it was.
C16_AuthChosenOnce ==
    [][/\ AuthAsGiven'
       /\ given' # None => conn' # None
       /\ conn # None => conn' = conn]_vars
\* constructed with a username and no password; the second client() call succeeded
C16_Witness ==
    /\ conn # None
    /\ given[1].username # None
    /\ given[1].password = None
    /\ Len(clients) = 2
    /\ clients[2] # None

\* no label reachable from the starting parcel's requires is reachable from itself
AcyclicLabels ==
    \A l \in ReachableLabels(invoice, Elems(requires(parcel))) :
        l \notin ReachableLabels(invoice, RequiredBy(invoice, { l }))

\* C17: when the labels reachable from the starting parcel's requires form no
\* cycle the call terminates: no frontier ever comes back.
C17_AcyclicTerminates == AcyclicLabels => pc # "looping"
\* such a call has returned after popping one label from two different
\* frontiers, its starting parcel listing no label twice
C17_Witness ==
    /\ Returned
    /\ AcyclicLabels
    /\ requires(parcel) = unique(requires(parcel))
    /\ \E f, g \in seen : f # g /\ pop_group(f) = pop_group(g)

NoRepeats(v) == \A i, j \in 1..Len(v) : v[i] = v[j] => i = j
IsPrefix(v, w) == Len(v) <= Len(w) /\ SubSeq(w, 1, Len(v)) = v

\* C18: after every expansion step the frontier holds no label twice, and the
\* labels that were queued (first occurrences) keep their positions at its
\* front.
C18_FrontierNoRepeats ==
    [][(pc \in { "acc", "looping" } /\ groups # << >>) =>
          /\ NoRepeats(groups')
          /\ IsPrefix(unique(pop_rest(groups)), groups')]_vars
\* the first step popped a label whose member requires a label still queued:
\* the frontier holds that label once
C18_Witness ==
    /\ pc = "acc"
    /\ Cardinality(seen) = 1
    /\ \E f \in seen :
          /\ \E p \in Elems(parcels_in(invoice, pop_group(f))) :
                Elems(requires(p)) \cap Elems(pop_rest(f)) # {}
          /\ groups = unique(pop_rest(f))

\* every accumulated parcel is a manifest parcel and a member of a popped label
AccFromPopped ==
    \A i \in 1..Len(acc) :
        /\ acc[i] \in Records(invoice)
        /\ \E f \in seen : is_member_of(acc[i], pop_group(f))

\* C19: at every step the accumulator holds only manifest parcels that are
\* members of a popped label, and each step's accumulator is a prefix of the
\* next step's.
C19_AccGrowsByMembers ==
    [][IsPrefix(acc, acc') /\ AccFromPopped']_vars
\* two expansions have each appended parcels
C19_Witness ==
    /\ pc = "acc"
    /\ Cardinality(seen) >= 2
    /\ Len(acc) >= 2
    /\ \A f \in seen : parcels_in(invoice, pop_group(f)) # << >>
    /\ acc[1] # acc[Len(acc)]

====
